---- MODULE Spec2Model ----
(***************************************************************************)
(* A model of scripts/update_readme.py: the README generator that scans    *)
(* the immediate subdirectories of the working directory for SKILL.md      *)
(* files, decodes their frontmatter, and writes a table of skills.         *)
(*                                                                         *)
(* Text is modelled as a sequence of one-character strings, Python values  *)
(* as tagged records, and a SKILL.md file as a sequence of lines.          *)
(***************************************************************************)
EXTENDS Integers, Sequences, FiniteSets, TLC

VARIABLES
    fs,             \* root directory: entry name -> entry
    readme,         \* content of README.md (or NoReadme)
    readme0,        \* content of README.md when the current run started
    pc,             \* position of main()
    exc,            \* the uncaught exception that ended the run, or NoExc
    skill_files,    \* main: skill_files
    idx,            \* main: index of the next skill_file of the for loop
    frontmatter,    \* main: frontmatter of the file processed last
    skills,         \* main: skills
    out,            \* standard output of the current run, a sequence of lines
    readme_content, \* main: readme_content
    writes,         \* number of writes of README.md by the current run
    run,            \* number of the current run of the script
    first_run,      \* what the first run discovered and rendered
    call            \* a pending or returned call of a pure function

vars == <<fs, readme, readme0, pc, exc, skill_files, idx, frontmatter, skills,
          out, readme_content, writes, run, first_run, call>>

(***************************************************************************)
(* Bounds of the model.                                                    *)
(***************************************************************************)
MaxDirs == 2
MaxTime == 2
MaxLen == 5
MaxRuns == 2

(***************************************************************************)
(* Characters and text.                                                    *)
(***************************************************************************)

\* The characters of the model in code point order.
Ascii ==
    <<" ", "-", ".", "/", "0", "7",
      "A", "B", "C", "D", "E", "F", "G", "H", "I", "J", "K", "L", "M",
      "N", "O", "P", "Q", "R", "S", "T", "U", "V", "W", "X", "Y", "Z",
      "\\",
      "a", "b", "c", "d", "e", "f", "g", "h", "i", "j", "k", "l", "m",
      "n", "o", "p", "q", "r", "s", "t", "u", "v", "w", "x", "y", "z",
      "|">>

Upper == <<"A", "B", "C", "D", "E", "F", "G", "H", "I", "J", "K", "L", "M",
           "N", "O", "P", "Q", "R", "S", "T", "U", "V", "W", "X", "Y", "Z">>

Lower == <<"a", "b", "c", "d", "e", "f", "g", "h", "i", "j", "k", "l", "m",
           "n", "o", "p", "q", "r", "s", "t", "u", "v", "w", "x", "y", "z">>

Chars == {Ascii[i] : i \in 1..Len(Ascii)}

Ord == [c \in Chars |-> CHOOSE i \in 1..Len(Ascii) : Ascii[i] = c]

SetMin(S) == CHOOSE x \in S : \A y \in S : x <= y

\* str.lower() on one character
LowerChar ==
    [c \in Chars |->
        IF \E i \in 1..Len(Upper) : Upper[i] = c
        THEN Lower[CHOOSE i \in 1..Len(Upper) : Upper[i] = c]
        ELSE c]

\* str.lower()
lower(s) == [i \in 1..Len(s) |-> LowerChar[s[i]]]

\* s < t on str: the first differing character decides, a proper prefix is less
StrLess(s, t) ==
    LET n == IF Len(s) < Len(t) THEN Len(s) ELSE Len(t)
        diff == {i \in 1..n : s[i] # t[i]}
    IN  IF diff = {} THEN Len(s) < Len(t)
        ELSE Ord[s[SetMin(diff)]] < Ord[t[SetMin(diff)]]

\* sub in s, on str
StrIn(sub, s) ==
    \E i \in 0..(Len(s) - Len(sub)) : SubSeq(s, i + 1, i + Len(sub)) = sub

\* s.replace(old, new) for a one-character old
RECURSIVE replace(_, _, _)
replace(s, old, new) ==
    IF s = <<>> THEN <<>>
    ELSE (IF Head(s) = old THEN new ELSE <<Head(s)>>) \o replace(Tail(s), old, new)

(***************************************************************************)
(* Python values.                                                          *)
(***************************************************************************)
PyNone == [t |-> "none"]
PyStr(s) == [t |-> "str", s |-> s]
PyInt(n) == [t |-> "int", n |-> n]
PyBool(b) == [t |-> "bool", b |-> b]
PyList(l) == [t |-> "list", l |-> l]
PyDict(d) == [t |-> "dict", d |-> d]

\* bool(v)
Truthy(v) ==
    CASE v.t = "none" -> FALSE
      [] v.t = "str"  -> v.s # <<>>
      [] v.t = "int"  -> v.n # 0
      [] v.t = "bool" -> v.b
      [] v.t = "list" -> v.l # <<>>
      [] v.t = "dict" -> DOMAIN v.d # {}

Return(v) == [ok |-> TRUE, v |-> v]
Raise(e) == [ok |-> FALSE, exc |-> e]

(***************************************************************************)
(* Text constants of the script.                                           *)
(***************************************************************************)
s_name == <<"n", "a", "m", "e">>
s_description == <<"d", "e", "s", "c", "r", "i", "p", "t", "i", "o", "n">>
s_always == <<"a", "l", "w", "a", "y", "s">>
s_automatically == <<"a", "u", "t", "o", "m", "a", "t", "i", "c", "a", "l", "l", "y">>
s_every == <<"e", "v", "e", "r", "y">>
s_auto_invoked == <<"A", "u", "t", "o", "-", "i", "n", "v", "o", "k", "e", "d">>
s_skill_md == <<"S", "K", "I", "L", "L", ".", "m", "d">>

\* is_auto_invoked: keywords
keywords == <<s_always, s_automatically, s_every>>

(***************************************************************************)
(* Classifier and command.                                                 *)
(***************************************************************************)

\* The classifier without the lower-casing of the description.
is_auto_invoked_case_sensitive(description) ==
    IF ~Truthy(description) THEN Return(FALSE)
    ELSE IF description.t # "str" THEN Raise("AttributeError")
    ELSE Return(\E i \in 1..Len(keywords) : StrIn(keywords[i], description.s))

\* is_auto_invoked(description): a non-str truthy value has no lower()
is_auto_invoked(description) ==
    IF ~Truthy(description) THEN Return(FALSE)
    ELSE IF description.t # "str" THEN Raise("AttributeError")
    ELSE Return(\E i \in 1..Len(keywords) :
                    StrIn(keywords[i], lower(description.s)))

\* The command of a skill that is never taken to be auto-invoked.
generate_command_always_slash(skill_name, description) ==
    LET auto == is_auto_invoked(description)
    IN  IF ~auto.ok THEN auto ELSE Return(<<"/">> \o skill_name.s)

\* generate_command(skill_name, description); skill_name is a str here, it
\* went through the sort key
generate_command(skill_name, description) ==
    LET auto == is_auto_invoked(description)
    IN  IF ~auto.ok THEN auto
        ELSE IF auto.v THEN Return(s_auto_invoked)
        ELSE Return(<<"/">> \o skill_name.s)

(***************************************************************************)
(* Renderer.                                                               *)
(***************************************************************************)

\* The sort key without the lower-casing of the name.
SortKey_case_sensitive(skill) == skill.name.s

\* generate_readme: key=lambda x: x['name'].lower()
SortKey(skill) == lower(skill.name.s)

\* list.sort inserts one element: after every element that is not greater
InsertSorted(sorted, x) ==
    LET greater == {i \in 1..Len(sorted) : StrLess(SortKey(x), SortKey(sorted[i]))}
    IN  IF greater = {} THEN Append(sorted, x)
        ELSE SubSeq(sorted, 1, SetMin(greater) - 1) \o <<x>>
                \o SubSeq(sorted, SetMin(greater), Len(sorted))

\* list.sort(key=...): ascending by key, equal keys keep their order
RECURSIVE sort(_)
sort(l) ==
    IF l = <<>> THEN <<>>
    ELSE InsertSorted(sort(SubSeq(l, 1, Len(l) - 1)), l[Len(l)])

\* The escaping that replaces the first pipe character only.
escape_first_only(description) ==
    LET pipes == {i \in 1..Len(description) : description[i] = "|"}
    IN  IF pipes = {} THEN description
        ELSE SubSeq(description, 1, SetMin(pipes) - 1) \o <<"\\", "|">>
                \o SubSeq(description, SetMin(pipes) + 1, Len(description))

\* generate_readme: description.replace('|', '\\|')
escape(description) == replace(description, "|", <<"\\", "|">>)

\* generate_readme: the body of the for loop, one table row
\* "| [name](path) | description | command |" kept as its three columns
row(skill) ==
    LET command == generate_command(skill.name, skill.description)
    IN  IF ~command.ok THEN command
        ELSE IF skill.description.t # "str" THEN Raise("AttributeError")
        ELSE Return([skill_link  |-> [label |-> skill.name.s, target |-> skill.path],
                     description |-> escape(skill.description.s),
                     command     |-> command.v])

\* The renderer that keeps the rows of the README.md it finds and adds its own.
generate_readme_appending(l) ==
    IF \E i \in 1..Len(l) : l[i].name.t # "str" THEN Raise("AttributeError")
    ELSE LET sorted == sort(l)
         IN  IF \E i \in 1..Len(sorted) : ~row(sorted[i]).ok
             THEN Raise("AttributeError")
             ELSE Return([skills |-> sorted,
                          rows   |-> readme.rows
                                        \o [i \in 1..Len(sorted) |-> row(sorted[i]).v]])

\* generate_readme up to the footer: the skills as sorted in place and the
\* rows of the table, or the exception raised on the way
generate_readme(l) ==
    IF \E i \in 1..Len(l) : l[i].name.t # "str" THEN Raise("AttributeError")
    ELSE LET sorted == sort(l)
         IN  IF \E i \in 1..Len(sorted) : ~row(sorted[i]).ok
             THEN Raise("AttributeError")
             ELSE Return([skills |-> sorted,
                          rows   |-> [i \in 1..Len(sorted) |-> row(sorted[i]).v]])

(***************************************************************************)
(* SKILL.md files: a sequence of lines, and whether the last line ends     *)
(* with a newline.  A line is a three-hyphen marker (with or without       *)
(* trailing spaces), a blank line, or a line of YAML: "key: value",        *)
(* "- value", a plain or quoted scalar, or a line no YAML document has     *)
(* (an unclosed quote or bracket).                                         *)
(***************************************************************************)
Marker(ws) == [k |-> "marker", ws |-> ws]
Blank == [k |-> "blank"]
KV(key, quoted, text) == [k |-> "kv", key |-> key, quoted |-> quoted, text |-> text]
Item(quoted, text) == [k |-> "item", quoted |-> quoted, text |-> text]
Scalar(quoted, text) == [k |-> "scalar", quoted |-> quoted, text |-> text]
Bad == [k |-> "bad"]

File(lines, nl) == [lines |-> lines, nl |-> nl]

\* parse_frontmatter: re.match(r'^---\s*\n(.*?)\n---\s*\n', content, re.DOTALL).
\* The opening marker is line 1; \s* then takes the blank lines that follow,
\* as many as leave a match; the closing marker is the first marker line
\* after at least one line of the group, and a newline must follow it.
\* The result is the group as lines, or NoMatch.
NoMatch == [matched |-> FALSE]

re_match(content) ==
    LET lines == content.lines
        n == Len(lines)
        closes(j) == lines[j].k = "marker" /\ (j < n \/ content.nl)
        \* lines 2..m are the blank lines after the opening marker
        m == SetMin({i \in 1..n : i = n \/ lines[i + 1].k # "blank"})
        greedy == {j \in (m + 2)..n : closes(j)}
    IN  IF n = 0 \/ lines[1].k # "marker" THEN NoMatch
        ELSE IF greedy # {}
             THEN [matched |-> TRUE, group |-> SubSeq(lines, m + 1, SetMin(greedy) - 1)]
        ELSE IF m >= 2 /\ m + 1 <= n /\ closes(m + 1)
             THEN [matched |-> TRUE, group |-> SubSeq(lines, 2, m)]
        ELSE NoMatch

(***************************************************************************)
(* yaml.safe_load on the lines of the group.                               *)
(***************************************************************************)
s_null == <<"n", "u", "l", "l">>
s_true == <<"t", "r", "u", "e">>
s_false == <<"f", "a", "l", "s", "e">>
Digits == {"0", "7"}
DigitValue == [c \in Digits |-> IF c = "0" THEN 0 ELSE 7]

\* int(text, base)
RECURSIVE ParseInt(_, _)
ParseInt(text, base) ==
    IF text = <<>> THEN 0
    ELSE ParseInt(SubSeq(text, 1, Len(text) - 1), base) * base
            + DigitValue[text[Len(text)]]

\* The implicit tag of a scalar: a quoted scalar is a str; a plain one is
\* null, a bool or an int when it reads as one, and a str otherwise.
resolve(quoted, text) ==
    IF quoted THEN PyStr(text)
    ELSE IF text = <<>> \/ text = s_null THEN PyNone
    ELSE IF text = s_true THEN PyBool(TRUE)
    ELSE IF text = s_false THEN PyBool(FALSE)
    ELSE IF \A i \in 1..Len(text) : text[i] \in Digits
         THEN PyInt(ParseInt(text, IF Len(text) > 1 /\ text[1] = "0" THEN 8 ELSE 10))
    ELSE PyStr(text)

RECURSIVE JoinLines(_)
JoinLines(nodes) ==
    IF Len(nodes) = 1 THEN nodes[1].text
    ELSE nodes[1].text \o <<" ">> \o JoinLines(Tail(nodes))

\* yaml.safe_load(frontmatter_text): the value, or yaml.YAMLError.
\* A leading marker line starts the document; another one starts a second
\* document, which safe_load refuses.  Lines of one kind make a mapping (a
\* repeated key keeps its last value), a sequence or a scalar (plain lines
\* fold into one str); lines of different kinds do not parse.
yaml_safe_load(group) ==
    LET doc == IF group # <<>> /\ group[1].k = "marker" THEN Tail(group) ELSE group
        nodes == SelectSeq(doc, LAMBDA l : l.k # "blank")
        kinds == {nodes[i].k : i \in 1..Len(nodes)}
    IN  IF "marker" \in kinds \/ "bad" \in kinds THEN Raise("YAMLError")
        ELSE IF nodes = <<>> THEN Return(PyNone)
        ELSE IF kinds = {"kv"}
             THEN Return(PyDict(
                    [key \in {nodes[i].key : i \in 1..Len(nodes)} |->
                        LET last == CHOOSE i \in 1..Len(nodes) :
                                        /\ nodes[i].key = key
                                        /\ \A j \in (i + 1)..Len(nodes) : nodes[j].key # key
                        IN  resolve(nodes[last].quoted, nodes[last].text)]))
        ELSE IF kinds = {"item"}
             THEN Return(PyList([i \in 1..Len(nodes) |->
                                    resolve(nodes[i].quoted, nodes[i].text)]))
        ELSE IF kinds = {"scalar"} /\ Len(nodes) = 1
             THEN Return(resolve(nodes[1].quoted, nodes[1].text))
        ELSE IF kinds = {"scalar"} /\ \A i \in 1..Len(nodes) : ~nodes[i].quoted
             THEN Return(PyStr(JoinLines(nodes)))
        ELSE Raise("YAMLError")

EmptyDict == PyDict(<<>>)

\* parse_frontmatter(file_path), on the content of the file
parse_frontmatter(content) ==
    LET match == re_match(content)
    IN  IF ~match.matched THEN EmptyDict
        ELSE LET loaded == yaml_safe_load(match.group)
             IN  IF ~loaded.ok THEN EmptyDict
                 ELSE IF Truthy(loaded.v) THEN loaded.v
                 ELSE EmptyDict

\* key in container
PyIn(key, container) ==
    CASE container.t = "dict" -> Return(key \in DOMAIN container.d)
      [] container.t = "str"  -> Return(StrIn(key, container.s))
      [] container.t = "list" ->
            Return(\E i \in 1..Len(container.l) : container.l[i] = PyStr(key))
      [] OTHER -> Raise("TypeError")

\* container[key] for a str key
PyGetItem(container, key) ==
    CASE container.t = "dict" /\ key \in DOMAIN container.d -> Return(container.d[key])
      [] container.t = "dict" -> Raise("KeyError")
      [] OTHER -> Raise("TypeError")

(***************************************************************************)
(* The root directory.                                                     *)
(***************************************************************************)
NoContent == File(<<>>, FALSE)
PlainFile == [is_dir |-> FALSE, has_skill |-> FALSE, skill |-> NoContent]
EmptyDir == [is_dir |-> TRUE, has_skill |-> FALSE, skill |-> NoContent]
SkillDir(content) == [is_dir |-> TRUE, has_skill |-> TRUE, skill |-> content]

\* str(item / "SKILL.md")
Path(name) == name \o <<"/">> \o s_skill_md

\* the directory of a path made by Path
DirOf(path) == SubSeq(path, 1, Len(path) - Len(s_skill_md) - 1)

\* open(file_path).read()
ReadFile(path) == fs[DirOf(path)].skill

\* find_skill_files: the files it appends, in no order
find_skill_files(root) ==
    {Path(name) : name \in {n \in DOMAIN root :
                                /\ root[n].is_dir
                                /\ Head(n) # "."
                                /\ root[n].has_skill}}

\* Path.iterdir yields the children in arbitrary order
Orders(S) ==
    {o \in [1..Cardinality(S) -> S] : \A i, j \in 1..Cardinality(S) : o[i] = o[j] => i = j}

(***************************************************************************)
(* README.md and standard output.                                          *)
(***************************************************************************)
NoReadme == [exists |-> FALSE, rows |-> <<>>, timestamp |-> 0]
Document(rows, timestamp) == [exists |-> TRUE, rows |-> rows, timestamp |-> timestamp]
OldReadme ==
    Document(<<[skill_link  |-> [label |-> <<"o", "l", "d">>, target |-> Path(<<"o">>)],
                description |-> <<"o", "l", "d">>,
                command     |-> <<"/", "o", "l", "d">>]>>, 0)

Line(kind, arg) == [kind |-> kind, arg |-> arg]

NoExc == "none"
NoCall == [fn |-> "none", arg |-> PyNone, returned |-> FALSE, ret |-> Return(FALSE)]
NoFirstRun == [wrote |-> FALSE, order |-> <<>>, rows |-> <<>>]

(***************************************************************************)
(* Inputs.                                                                 *)
(***************************************************************************)
DirNames == << <<"x">>, <<"y">>, <<"z">>, <<"w">>, <<"v">> >>
HiddenName == <<".", "h">>
Visible == {DirNames[i] : i \in 1..MaxDirs}

n_B == <<"B">>
n_a == <<"a", "|">>
n_A == <<"A", "|">>
d_fix == <<"f", "i", "x">>
d_pipes == <<"a", "|", "b", "|">>
d_everyone == <<"E", "V", "E", "R", "Y", "O", "N", "E">>
t_text == <<"t", "e", "x", "t">>
t_seven == <<"7">>
t_name_description == s_name \o <<" ">> \o s_description

Body == Scalar(FALSE, t_text)
Doc(block) == File(<<Marker(FALSE)>> \o block \o <<Marker(FALSE), Body>>, TRUE)

c_B == Doc(<<KV(s_name, FALSE, n_B), KV(s_description, FALSE, d_fix)>>)
c_a == Doc(<<KV(s_name, FALSE, n_a), Blank, KV(s_description, FALSE, d_pipes)>>)
c_A == Doc(<<KV(s_description, TRUE, d_everyone), KV(s_name, TRUE, n_A)>>)
c_empty_name == Doc(<<KV(s_name, TRUE, <<>>), KV(s_description, FALSE, d_fix)>>)
c_empty_description == Doc(<<KV(s_name, FALSE, n_B), KV(s_description, TRUE, <<>>)>>)
c_null_name == Doc(<<KV(s_name, FALSE, <<>>), KV(s_description, FALSE, d_fix)>>)
c_null_description == Doc(<<KV(s_name, FALSE, n_B), KV(s_description, FALSE, <<>>)>>)
c_no_description == Doc(<<KV(s_name, FALSE, n_B)>>)
c_no_frontmatter == File(<<Body, Body>>, TRUE)
c_malformed == Doc(<<KV(s_name, FALSE, n_B), Bad>>)
c_scalar == Doc(<<Scalar(FALSE, t_name_description)>>)
c_list == Doc(<<Item(FALSE, s_name), Item(FALSE, s_description)>>)
c_int == Doc(<<Scalar(FALSE, t_seven)>>)
c_int_name == Doc(<<KV(s_name, FALSE, t_seven), KV(s_description, FALSE, d_fix)>>)
c_zero == Doc(<<Scalar(FALSE, <<"0">>)>>)
c_blank == File(<<Marker(TRUE), Blank, Marker(FALSE), Body>>, TRUE)
c_unterminated ==
    File(<<Marker(FALSE), KV(s_name, FALSE, n_B), KV(s_description, FALSE, d_fix),
           Marker(TRUE)>>, FALSE)

Contents ==
    {c_B, c_a, c_A, c_empty_name, c_empty_description, c_null_name,
     c_null_description, c_no_description, c_no_frontmatter, c_malformed,
     c_scalar, c_list, c_int, c_int_name, c_zero, c_blank, c_unterminated}

RerunContents == {c_B, c_a, c_A, c_no_description, c_null_name}

Entries(contents) == {PlainFile, EmptyDir} \cup {SkillDir(c) : c \in contents}

Roots(contents) ==
    {v @@ (HiddenName :> h) :
        v \in [Visible -> Entries(contents)], h \in {EmptyDir, SkillDir(c_B)}}

(***************************************************************************)
(* main()                                                                  *)
(***************************************************************************)
StartOfRun ==
    /\ pc = "start"
    /\ exc = NoExc
    /\ skill_files = <<>>
    /\ idx = 1
    /\ frontmatter = EmptyDict
    /\ skills = <<>>
    /\ out = <<>>
    /\ readme_content = NoReadme
    /\ writes = 0

Init ==
    /\ fs \in Roots(Contents)
    /\ readme \in {NoReadme, OldReadme}
    /\ readme0 = readme
    /\ run = 1
    /\ first_run = NoFirstRun
    /\ call = NoCall
    /\ StartOfRun

\* main: skill_files = find_skill_files()
FindSkillFiles ==
    /\ pc = "start"
    /\ \E order \in Orders(find_skill_files(fs)) :
        /\ skill_files' = order
        /\ pc' = IF order = <<>> THEN "no_files" ELSE "loop"
    /\ UNCHANGED <<fs, readme, readme0, exc, idx, frontmatter, skills, out,
                   readme_content, writes, run, first_run, call>>

\* main: if not skill_files: print, return
NoSkillFiles ==
    /\ pc = "no_files"
    /\ out' = Append(out, Line("no_files", 0))
    /\ pc' = "done"
    /\ UNCHANGED <<fs, readme, readme0, exc, skill_files, idx, frontmatter, skills,
                   readme_content, writes, run, first_run, call>>

\* One iteration of the for loop of main: what it leaves in frontmatter,
\* skills and out, and the exception that ends it, if any.
Iteration(skill_file) ==
    LET fm == parse_frontmatter(ReadFile(skill_file))
        has_name == PyIn(s_name, fm)
        has_description == PyIn(s_description, fm)
        name == PyGetItem(fm, s_name)
        description == PyGetItem(fm, s_description)
        skipped == [frontmatter |-> fm, skills |-> skills, exc |-> NoExc,
                    out |-> Append(out, Line("warning", skill_file))]
        failed(e) == [frontmatter |-> fm, skills |-> skills, exc |-> e, out |-> out]
    IN  IF ~has_name.ok THEN failed(has_name.exc)
        ELSE IF ~has_name.v THEN skipped
        ELSE IF ~has_description.ok THEN failed(has_description.exc)
        ELSE IF ~has_description.v THEN skipped
        ELSE IF ~name.ok THEN failed(name.exc)
        ELSE IF ~description.ok THEN failed(description.exc)
        ELSE [frontmatter |-> fm,
              skills |-> Append(skills, [name |-> name.v,
                                         description |-> description.v,
                                         path |-> skill_file]),
              exc |-> NoExc,
              out |-> Append(out, Line("found", name.v))]

\* main: the body of "for skill_file in skill_files"
ProcessFile ==
    /\ pc = "loop"
    /\ idx <= Len(skill_files)
    /\ LET it == Iteration(skill_files[idx])
       IN  /\ frontmatter' = it.frontmatter
           /\ skills' = it.skills
           /\ out' = it.out
           /\ exc' = it.exc
           /\ pc' = IF it.exc = NoExc THEN "loop" ELSE "crashed"
           /\ idx' = IF it.exc = NoExc THEN idx + 1 ELSE idx
    /\ UNCHANGED <<fs, readme, readme0, skill_files, readme_content, writes, run,
                   first_run, call>>

\* main without the return for an empty skills list: it writes an empty table.
NoValidSkills_writing ==
    /\ pc = "loop"
    /\ idx > Len(skill_files)
    /\ skills = <<>>
    /\ readme' = Document(<<>>, 1)
    /\ writes' = writes + 1
    /\ out' = Append(out, Line("generated", 0))
    /\ pc' = "done"
    /\ UNCHANGED <<fs, readme0, exc, skill_files, idx, frontmatter, skills,
                   readme_content, run, first_run, call>>

\* main: if not skills: print, return
NoValidSkills ==
    /\ pc = "loop"
    /\ idx > Len(skill_files)
    /\ skills = <<>>
    /\ out' = Append(out, Line("no_valid", 0))
    /\ pc' = "done"
    /\ UNCHANGED <<fs, readme, readme0, exc, skill_files, idx, frontmatter, skills,
                   readme_content, writes, run, first_run, call>>

\* main rendering as soon as a skill is found, before the loop has ended.
GenerateReadme_early ==
    /\ pc = "loop"
    /\ skills # <<>>
    /\ \E timestamp \in 1..MaxTime :
        LET generated == generate_readme(skills)
        IN  IF generated.ok
            THEN /\ skills' = generated.v.skills
                 /\ readme_content' = Document(generated.v.rows, timestamp)
                 /\ pc' = "write"
                 /\ exc' = exc
            ELSE /\ pc' = "crashed"
                 /\ exc' = generated.exc
                 /\ UNCHANGED <<skills, readme_content>>
    /\ UNCHANGED <<fs, readme, readme0, skill_files, idx, frontmatter, out, writes,
                   run, first_run, call>>

\* main: readme_content = generate_readme(skills), with the timestamp of
\* datetime.now
GenerateReadme ==
    /\ pc = "loop"
    /\ idx > Len(skill_files)
    /\ skills # <<>>
    /\ \E timestamp \in 1..MaxTime :
        LET generated == generate_readme(skills)
        IN  IF generated.ok
            THEN /\ skills' = generated.v.skills
                 /\ readme_content' = Document(generated.v.rows, timestamp)
                 /\ pc' = "write"
                 /\ exc' = exc
            ELSE /\ pc' = "crashed"
                 /\ exc' = generated.exc
                 /\ UNCHANGED <<skills, readme_content>>
    /\ UNCHANGED <<fs, readme, readme0, skill_files, idx, frontmatter, out, writes,
                   run, first_run, call>>

\* main: open(readme_path, 'w'), f.write(readme_content), print
WriteReadme ==
    /\ pc = "write"
    /\ readme' = readme_content
    /\ writes' = writes + 1
    /\ out' = Append(out, Line("generated", Len(skills)))
    /\ pc' = "done"
    /\ first_run' = IF run = 1
                    THEN [wrote |-> TRUE, order |-> skill_files,
                          rows |-> readme_content.rows]
                    ELSE first_run
    /\ UNCHANGED <<fs, readme0, exc, skill_files, idx, frontmatter, skills,
                   readme_content, run, call>>

Next ==
    \/ FindSkillFiles
    \/ NoSkillFiles
    \/ ProcessFile
    \/ NoValidSkills
    \/ GenerateReadme
    \/ WriteReadme

Spec == Init /\ [][Next]_vars

(***************************************************************************)
(* Further runs of the script over the same directory.                     *)
(***************************************************************************)
InitRerun ==
    /\ fs \in Roots(RerunContents)
    /\ readme = NoReadme
    /\ readme0 = readme
    /\ run = 1
    /\ first_run = NoFirstRun
    /\ call = NoCall
    /\ StartOfRun

\* The process has ended and the script is started again: nothing but the
\* file system is left of the earlier runs.
Rerun ==
    /\ pc \in {"done", "crashed"}
    /\ run < MaxRuns
    /\ run' = run + 1
    /\ readme0' = readme
    /\ pc' = "start"
    /\ exc' = NoExc
    /\ skill_files' = <<>>
    /\ idx' = 1
    /\ frontmatter' = EmptyDict
    /\ skills' = <<>>
    /\ out' = <<>>
    /\ readme_content' = NoReadme
    /\ writes' = 0
    /\ UNCHANGED <<fs, readme, first_run, call>>

NextRerun ==
    \/ FindSkillFiles
    \/ NoSkillFiles
    \/ ProcessFile
    \/ NoValidSkills
    \/ GenerateReadme
    \/ WriteReadme
    \/ Rerun

SpecRerun == InitRerun /\ [][NextRerun]_vars

(***************************************************************************)
(* The pure functions on their own: one call of is_auto_invoked on a       *)
(* description, or of the loop body of generate_readme on a skill.         *)
(***************************************************************************)
PureAlphabet == {"e", "v", "r", "y", "E", "|"}
Texts(len) == UNION {[1..n -> PureAlphabet] : n \in 0..len}

Phrases ==
    {pre \o word \o post :
        pre \in {<<>>, <<"N">>, <<"\\", "|">>},
        word \in {s_always, <<"A", "l", "w", "a", "y", "s">>,
                  <<"A", "L", "W", "A", "Y", "S">>, <<"a", "l", "w", "a", "y">>,
                  s_automatically, <<"a", "u", "t", "o", "m", "a", "t", "i", "c">>,
                  <<"A", "u", "t", "o", "m", "a", "t", "i", "c", "a", "l", "l", "Y">>,
                  s_every, d_everyone,
                  <<"e", "v", "e", "r">>, <<"e", "v", "e", " ", "r", "y">>},
        post \in {<<>>, <<" ", "o", "n">>, <<"|">>}}

Descriptions(len) == {PyNone} \cup {PyStr(d) : d \in Texts(len) \cup Phrases}

Skills ==
    {[name |-> PyStr(n), description |-> d, path |-> Path(<<"x">>)] :
        n \in {n_B, n_a, <<>>}, d \in Descriptions(MaxLen - 1)}

Called(fn, arg) == [fn |-> fn, arg |-> arg, returned |-> FALSE, ret |-> Return(FALSE)]

InitPure ==
    /\ fs = (HiddenName :> EmptyDir)
    /\ readme = NoReadme
    /\ readme0 = readme
    /\ run = 1
    /\ first_run = NoFirstRun
    /\ call \in {Called("is_auto_invoked", d) : d \in Descriptions(MaxLen)}
                    \cup {Called("row", skill) : skill \in Skills}
    /\ StartOfRun

\* a call of is_auto_invoked returns
IsAutoInvoked ==
    /\ call.fn = "is_auto_invoked"
    /\ ~call.returned
    /\ call' = [call EXCEPT !.returned = TRUE, !.ret = is_auto_invoked(call.arg)]
    /\ UNCHANGED <<fs, readme, readme0, pc, exc, skill_files, idx, frontmatter,
                   skills, out, readme_content, writes, run, first_run>>

\* generate_readme renders the row of one skill
RenderRow ==
    /\ call.fn = "row"
    /\ ~call.returned
    /\ call' = [call EXCEPT !.returned = TRUE, !.ret = row(call.arg)]
    /\ UNCHANGED <<fs, readme, readme0, pc, exc, skill_files, idx, frontmatter,
                   skills, out, readme_content, writes, run, first_run>>

NextPure ==
    \/ IsAutoInvoked
    \/ RenderRow

SpecPure == InitPure /\ [][NextPure]_vars

(***************************************************************************)
(* Vocabulary of the properties.                                           *)
(***************************************************************************)
Discovered == find_skill_files(fs)
Terminated == pc \in {"done", "crashed"}

\* the decoded frontmatter of a discovered file is a mapping with a
\* non-empty "name" and a non-empty "description"
Qualifies(path) ==
    LET fm == parse_frontmatter(ReadFile(path))
    IN  /\ fm.t = "dict"
        /\ s_name \in DOMAIN fm.d
        /\ s_description \in DOMAIN fm.d
        /\ Truthy(fm.d[s_name])
        /\ Truthy(fm.d[s_description])

\* the decoded frontmatter of a discovered file is a mapping without "name"
\* or without "description"
Lacks(path) ==
    LET fm == parse_frontmatter(ReadFile(path))
    IN  /\ fm.t = "dict"
        /\ (s_name \notin DOMAIN fm.d \/ s_description \notin DOMAIN fm.d)

RowsFor(document, path) ==
    {i \in 1..Len(document.rows) : document.rows[i].skill_link.target = path}

LinesOf(kind) == {i \in 1..Len(out) : out[i].kind = kind}

WarningsFor(path) == {i \in LinesOf("warning") : out[i].arg = path}

\* c is the letter k, in either case
SameLetter(c, k) == c = k \/ \E i \in 1..Len(Upper) : Upper[i] = c /\ Lower[i] = k

\* text contains the word, whatever the case of its letters
Mentions(text, word) ==
    \E off \in 0..(Len(text) - Len(word)) :
        \A j \in 1..Len(word) : SameLetter(text[off + j], word[j])

Triggers(description) ==
    /\ description.t = "str"
    /\ \E word \in {s_always, s_automatically, s_every} : Mentions(description.s, word)

\* a backslash before a pipe is taken away
RECURSIVE Unescape(_)
Unescape(s) ==
    IF s = <<>> THEN <<>>
    ELSE IF Len(s) >= 2 /\ s[1] = "\\" /\ s[2] = "|"
         THEN <<"|">> \o Unescape(SubSeq(s, 3, Len(s)))
    ELSE <<s[1]>> \o Unescape(Tail(s))

Pipes(s) == Cardinality({i \in 1..Len(s) : s[i] = "|"})

(***************************************************************************)
(* Properties.                                                             *)
(***************************************************************************)

\* C1: in the table a run has written, a discovered SKILL.md file has exactly
\* one row if its frontmatter holds a non-empty name and a non-empty
\* description, and every other entry of the root directory has no row.
C1_RowIffNonEmptyNameAndDescription ==
    (pc = "done" /\ writes = 1) =>
        \A n \in DOMAIN fs :
            Cardinality(RowsFor(readme, Path(n))) =
                IF Path(n) \in Discovered /\ Qualifies(Path(n)) THEN 1 ELSE 0

\* C2: the rows generate_readme produces are in ascending order of the
\* lower-cased name, and rows with equal lower-cased names are in the order
\* in which discovery produced their files.
C2_RowsSortedStable ==
    readme_content.exists =>
        LET rows == readme_content.rows
            key(i) == lower(rows[i].skill_link.label)
            pos(i) == CHOOSE p \in 1..Len(skill_files) :
                          skill_files[p] = rows[i].skill_link.target
        IN  \A i, j \in 1..Len(rows) :
                i < j => /\ ~StrLess(key(j), key(i))
                         /\ key(i) = key(j) => pos(i) < pos(j)

\* C2 witness: two rows whose names differ in case only, kept in discovery order.
C2_Witness ==
    /\ readme_content.exists
    /\ Len(readme_content.rows) = 2
    /\ readme_content.rows[1].skill_link.label = n_A
    /\ readme_content.rows[2].skill_link.label = n_a

\* C3: when no file is discovered, or every discovered file lacks a key, the
\* run never writes README.md, does not fail, and ends after a "no skills"
\* message; a run that ends with no skill has left README.md as it was.
C3_NoSkillsLeavesReadme ==
    /\ (pc # "start" /\ \A i \in 1..Len(skill_files) : Lacks(skill_files[i])) =>
            /\ readme = readme0
            /\ writes = 0
            /\ pc \in {"no_files", "loop", "done"}
            /\ pc = "done" =>
                    /\ out # <<>>
                    /\ out[Len(out)].kind =
                            IF skill_files = <<>> THEN "no_files" ELSE "no_valid"
    /\ (pc = "done" /\ skills = <<>>) =>
            /\ readme = readme0
            /\ writes = 0
            /\ out[Len(out)].kind \in {"no_files", "no_valid"}

\* C3 witness: two files were discovered and skipped, and the README.md that
\* existed before the run is still there.
C3_Witness ==
    /\ pc = "done"
    /\ Len(skill_files) = 2
    /\ skills = <<>>
    /\ readme0 = OldReadme
    /\ readme = OldReadme

\* C4: a discovered file whose frontmatter lacks "name" or "description" has
\* no row, has exactly one warning naming it, and does not stop the run:
\* every file is processed, and README.md is written if another file is valid.
C4_MissingKeysSkippedRunContinues ==
    Terminated =>
        \A i \in 1..Len(skill_files) :
            Lacks(skill_files[i]) =>
                /\ writes = 1 => RowsFor(readme, skill_files[i]) = {}
                /\ Cardinality(WarningsFor(skill_files[i])) = 1
                /\ idx > Len(skill_files)
                /\ (\E j \in 1..Len(skill_files) : j # i /\ Qualifies(skill_files[j]))
                        => writes = 1

\* C5: the frontmatter parse_frontmatter returns is a mapping, and the key
\* lookups of main on it do not fail.
C5_FrontmatterIsMapping ==
    /\ frontmatter.t = "dict"
    /\ ~(pc = "crashed" /\ idx <= Len(skill_files))

\* C6: is_auto_invoked returns true exactly for a description that contains
\* "always", "automatically" or "every" in whatever case, and false for an
\* empty or absent description.
C6_ClassifierIffKeyword ==
    (call.fn = "is_auto_invoked" /\ call.returned) =>
        /\ call.ret.ok
        /\ call.ret.v <=> Triggers(call.arg)

\* C6 witness: "EvEry" is classified as auto-invoked.
C6_Witness ==
    /\ call.fn = "is_auto_invoked"
    /\ call.returned
    /\ call.arg = PyStr(<<"E", "v", "E", "r", "y">>)
    /\ call.ret = Return(TRUE)

\* C7: the command of a rendered row is "Auto-invoked" when the description
\* of its record triggers the classifier, and "/" followed by the unchanged
\* name of the record otherwise.
C7_CommandColumn ==
    (call.fn = "row" /\ call.returned /\ call.ret.ok) =>
        call.ret.v.command =
            IF Triggers(call.arg.description) THEN s_auto_invoked
            ELSE <<"/">> \o call.arg.name.s

\* C7 witness: a record named "a|" whose description has pipes and no keyword
\* gets the command "/a|".
C7_Witness ==
    /\ call.fn = "row"
    /\ call.returned
    /\ call.arg.name = PyStr(n_a)
    /\ call.arg.description = PyStr(<<"e", "|", "v", "|">>)
    /\ call.ret.ok
    /\ call.ret.v.command = <<"/", "a", "|">>

\* C8: the description of a rendered row is the description of its record
\* with a backslash put before every pipe and nothing else changed; the name
\* and the path of the link are those of the record.
C8_DescriptionColumn ==
    (call.fn = "row" /\ call.returned /\ call.ret.ok) =>
        /\ Unescape(call.ret.v.description) = call.arg.description.s
        /\ Len(call.ret.v.description) =
                Len(call.arg.description.s) + Pipes(call.arg.description.s)
        /\ call.ret.v.skill_link.label = call.arg.name.s
        /\ call.ret.v.skill_link.target = call.arg.path

\* C8 witness: a description with a backslash and two pipes has been rendered.
C8_Witness ==
    /\ call.fn = "row"
    /\ call.returned
    /\ call.arg.name = PyStr(n_a)
    /\ call.arg.description = PyStr(<<"\\", "|", "e", "v", "e", "r", "|">>)
    /\ call.ret.ok
    /\ call.ret.v.description = <<"\\", "\\", "|", "e", "v", "e", "r", "\\", "|">>

\* C9 as stated: the table a later run writes is the table the first run
\* wrote over the same directory.
C9_TableFunctionOfInputSet ==
    (run > 1 /\ writes = 1 /\ first_run.wrote) => readme.rows = first_run.rows

\* C9 as amended: a later run over the same directory writes a table exactly
\* when the first did, with the same rows; the tables are equal when
\* discovery produced the files in the same order in both runs, or when no
\* two rows have the same lower-cased name.
C9_TableFunctionOfDiscoveredSequence ==
    (run > 1 /\ Terminated) =>
        /\ writes = 1 <=> first_run.wrote
        /\ writes = 0 => readme = readme0
        /\ writes = 1 =>
            LET rows == readme.rows
                distinct == \A i, j \in 1..Len(rows) :
                                i # j => lower(rows[i].skill_link.label)
                                            # lower(rows[j].skill_link.label)
            IN  /\ {rows[i] : i \in 1..Len(rows)}
                        = {first_run.rows[i] : i \in 1..Len(first_run.rows)}
                /\ Len(rows) = Len(first_run.rows)
                /\ (skill_files = first_run.order \/ distinct) => rows = first_run.rows

\* C9 witness: the second run discovered the files in another order, at
\* another time, and wrote the two rows of the first run again.
C9_Witness ==
    /\ run = 2
    /\ pc = "done"
    /\ writes = 1
    /\ Len(readme.rows) = 2
    /\ skill_files # first_run.order
    /\ readme.rows = first_run.rows
    /\ readme.timestamp # readme0.timestamp

\* C10: README.md is written at most once in a run, only after every
\* discovered file has been turned into a record or skipped, with one row for
\* each "Found skill" line and a summary line of that number; a run that
\* fails leaves README.md as it was.
C10_WriteOnceAfterAllFiles ==
    /\ writes <= 1
    /\ writes = 0 => readme = readme0
    /\ pc = "crashed" => writes = 0
    /\ writes = 1 =>
        /\ pc = "done"
        /\ Cardinality(LinesOf("found")) + Cardinality(LinesOf("warning"))
                = Len(skill_files)
        /\ Len(readme.rows) = Cardinality(LinesOf("found"))
        /\ out[Len(out)] = Line("generated", Cardinality(LinesOf("found")))

\* C10 witness: a run that skipped one file and found another has written.
C10_Witness ==
    /\ pc = "done"
    /\ writes = 1
    /\ Cardinality(LinesOf("warning")) = 1
    /\ Cardinality(LinesOf("found")) = 1
    /\ Len(readme.rows) = 1

====
